---- MODULE Spec2Model ----
(***************************************************************************)
(* A model of src/tasks/task.ts: the Task class (its step list, its        *)
(* environment map, its condition) and the renderer toShellCommand.        *)
(*                                                                         *)
(* A JavaScript string built by a template literal is modelled as the      *)
(* sequence of its pieces (the literal parts and the interpolated values,  *)
(* in order); Flat gives the string itself.  The pieces keep the           *)
(* interpolated commands apart from the shell syntax the renderer adds, so *)
(* that the rendered command can also be run (Sh, below).                  *)
(***************************************************************************)
EXTENDS Integers, Sequences, FiniteSets, TLC

VARIABLES
    _steps,     \* task name -> this._steps, the task's step list
    _env,       \* task name -> the object this._env refers to (a key of heap)
    heap,       \* object identity -> environment object (its entries in insertion order)
    condition,  \* task name -> this.condition (readonly after construction)
    tasksEnv,   \* this.tasks.env, the registry's base environment
    last,       \* the call made last: [op, task, cmd, value]
    rs          \* the state of a render in progress (call stack and result)

vars == <<_steps, _env, heap, condition, tasksEnv, last, rs>>

-----------------------------------------------------------------------------
(* Bounds of the model *)

\* steps held by all tasks together
MaxSteps == 3
\* steps held by all tasks together where the environment is explored
MaxFrameSteps == 1

-----------------------------------------------------------------------------
(* Values *)

\* JavaScript's undefined (an omitted optional argument or field)
Undefined == "undefined"

\* JavaScript truthiness of an optional string: `if (s)`
Truthy(s) == s # Undefined /\ s # ""

\* the tasks the registry holds
Tasks == {"a", "b"}

\* a Task object the registry does not hold
Unregistered == "m"

\* Tasks.tryFind(name), the registry's lookup
tryFind(name) == IF name \in Tasks THEN name ELSE Undefined

\* TaskStepOptions: `name` and `env`
NoOptions == [name |-> Undefined, env |-> <<>>]

Named == [name |-> "n", env |-> <<>>]

WithEnv == [name |-> Undefined, env |-> << <<"K", "s">> >>]

\* { exec: command, ...options }
ExecStep(command, options) ==
    [exec |-> command, execTask |-> Undefined,
     name |-> options.name, env |-> options.env]

\* { execTask: subtask.name, ...options }
SubtaskStep(subtask, options) ==
    [exec |-> Undefined, execTask |-> subtask,
     name |-> options.name, env |-> options.env]

-----------------------------------------------------------------------------
(* Environment objects: sequences of <<name, value>> in insertion order *)

Keys(e) == {e[i][1] : i \in 1..Len(e)}

Lookup(e, k) == (CHOOSE i \in 1..Len(e) : e[i][1] = k)

ValueOf(e, k) == e[Lookup(e, k)][2]

\* obj[name] = value
SetProperty(e, k, v) ==
    IF k \in Keys(e)
    THEN [e EXCEPT ![Lookup(e, k)] = <<k, v>>]
    ELSE Append(e, <<k, v>>)

RECURSIVE SpreadFrom(_, _, _)
SpreadFrom(target, source, i) ==
    IF i > Len(source) THEN target
    ELSE SpreadFrom(SetProperty(target, source[i][1], source[i][2]), source, i + 1)

\* a mutant: the registry's entry is kept when the task sets the same name
RegistryWins(base, over) == SpreadFrom(over, base, 1)

\* { ...base, ...over }
Spread(base, over) == SpreadFrom(base, over, 1)

\* the environment object of a task
EnvOf(t) == heap[_env[t]]

-----------------------------------------------------------------------------
(* Strings as sequences of pieces *)

RECURSIVE Flat(_)
Flat(pieces) ==
    IF pieces = <<>> THEN "" ELSE Head(pieces) \o Flat(Tail(pieces))

RECURSIVE Join(_, _)
\* array.join(sep) of an array of strings
Join(array, sep) ==
    IF array = <<>> THEN <<>>
    ELSE IF Len(array) = 1 THEN array[1]
    ELSE array[1] \o <<sep>> \o Join(Tail(array), sep)

\* `( ${c} )`
Group(c) == <<"( ">> \o c \o <<" )">>

-----------------------------------------------------------------------------
(* Task.toShellCommand *)

\* `echo ${step.name}`
Echo(name) == "echo " \o name

\* a mutant: the fragments are joined without their own grouping
JoinedBare(cmd) == Join(cmd, " && ")

\* cmd.map(c => `( ${c} )`).join(' && ')
AllCommands(cmd) == Join([i \in 1..Len(cmd) |-> Group(cmd[i])], " && ")

\* this.condition ? `! ( ${this.condition} ) || ( ${allCommands} )` : allCommands
WithCondition(cond, allCommands) ==
    IF Truthy(cond)
    THEN <<"! ", "( ", cond, " )", " || ">> \o Group(allCommands)
    ELSE allCommands

\* lines.push(`${k}="${v}"; `) for each entry of env
Lines(env) ==
    [i \in 1..Len(env) |-> <<env[i][1], "=\"", env[i][2], "\"; ">>]

\* `( ${lines.join('')} ${withCondition} )`
Assemble(lines, withCondition) ==
    <<"( ">> \o Join(lines, "") \o <<" ">> \o withCondition \o <<" )">>

\* the merged environment of a render: { ...this.tasks.env, ...this._env }
RenderEnv(t) == Spread(tasksEnv, EnvOf(t))

\* the error thrown for an unresolved subtask
Unresolved(name) == "unable to resolve subtask " \o name

\* a mutant: an unresolved subtask is skipped
SkipUnresolved(name) == [kind |-> "ok", cmd |-> <<>>, msg |-> ""]

\* throw new Error(`unable to resolve subtask ${step.execTask}`)
Throw(name) == [kind |-> "throw", cmd |-> <<>>, msg |-> Unresolved(name)]

\* the fragments a step pushes for its name and its command
OwnFragments(step) ==
    (IF Truthy(step.name) THEN << <<Echo(step.name)>> >> ELSE <<>>)
    \o (IF Truthy(step.exec) THEN << <<step.exec>> >> ELSE <<>>)

(* The recursion of toShellCommand, computed as the code computes it.  The  *)
(* code holds no guard: a call that re-enters the render of a task that is  *)
(* already on the call stack repeats that task's render from the same state *)
(* (a render changes nothing), so it never returns: kind "diverge".         *)
RECURSIVE renderTask(_, _)

\* a mutant: the subtask's render is pushed without its grouping
Ungrouped(rendered) == rendered

\* cmd.push(`( ${subtask.toShellCommand()} )`)
SubtaskGroup(rendered) == Group(rendered)

\* `if (step.execTask) { ... }`: the fragment a step pushes for its subtask
SubtaskFragment(step, path) ==
    IF ~Truthy(step.execTask) THEN [kind |-> "ok", cmd |-> <<>>, msg |-> ""]
    ELSE LET subtask == tryFind(step.execTask) IN
         IF subtask = Undefined THEN Throw(step.execTask)
         ELSE IF subtask \in path
         THEN [kind |-> "diverge", cmd |-> <<>>, msg |-> ""]
         ELSE LET sub == renderTask(subtask, path \cup {subtask}) IN
              IF sub.kind # "ok"
              THEN [kind |-> sub.kind, cmd |-> <<>>, msg |-> sub.msg]
              ELSE [kind |-> "ok", cmd |-> <<SubtaskGroup(sub.str)>>, msg |-> ""]

RECURSIVE forSteps(_, _, _, _)
\* the loop `for (const step of this.steps)` from step i on, with cmd so far
forSteps(t, path, i, cmd) ==
    IF i > Len(_steps[t]) THEN [kind |-> "ok", cmd |-> cmd, msg |-> ""]
    ELSE LET step == _steps[t][i]
             sub  == SubtaskFragment(step, path)
         IN  IF sub.kind # "ok" THEN sub
             ELSE forSteps(t, path, i + 1, cmd \o OwnFragments(step) \o sub.cmd)

renderTask(t, path) ==
    LET loop == forSteps(t, path, 1, <<>>) IN
    IF loop.kind # "ok"
    THEN [kind |-> loop.kind, str |-> <<>>, msg |-> loop.msg]
    ELSE [kind |-> "ok",
          str  |-> Assemble(Lines(RenderEnv(t)),
                            WithCondition(condition[t], AllCommands(loop.cmd))),
          msg  |-> ""]

\* the array `cmd` of a render of t
Cmd(t) == forSteps(t, {t}, 1, <<>>)

\* task.toShellCommand()
toShellCommand(t) == renderTask(t, {t})

-----------------------------------------------------------------------------
(* Running a rendered command: the list semantics of a POSIX shell, for    *)
(* the syntax the renderer emits.  `failing` is the set of commands that   *)
(* exit non-zero; every other command exits 0.  A run yields the exit      *)
(* status and the commands executed, in order, each with the variables     *)
(* assigned in its shell when it ran.  A command that does not parse (an   *)
(* empty `( )`) runs nothing and exits 2.                                   *)

Tok(type, a, v) == [t |-> type, a |-> a, v |-> v]

RECURSIVE LexFrom(_, _)
LexFrom(p, i) ==
    IF i > Len(p) THEN <<>>
    ELSE IF i + 3 <= Len(p) /\ p[i + 1] = "=\""
         THEN <<Tok("assign", p[i], p[i + 2]), Tok(";", "", "")>> \o LexFrom(p, i + 4)
    ELSE IF p[i] \in {"", " "} THEN LexFrom(p, i + 1)
    ELSE IF p[i] = "( " THEN <<Tok("(", "", "")>> \o LexFrom(p, i + 1)
    ELSE IF p[i] = " )" THEN <<Tok(")", "", "")>> \o LexFrom(p, i + 1)
    ELSE IF p[i] = "! " THEN <<Tok("!", "", "")>> \o LexFrom(p, i + 1)
    ELSE IF p[i] = " && " THEN <<Tok("&&", "", "")>> \o LexFrom(p, i + 1)
    ELSE IF p[i] = " || " THEN <<Tok("||", "", "")>> \o LexFrom(p, i + 1)
    ELSE <<Tok("cmd", p[i], "")>> \o LexFrom(p, i + 1)

At(toks, i) == IF i <= Len(toks) THEN toks[i].t ELSE "eof"

ShResult(pos, st, ran, shenv) ==
    [pos |-> pos, st |-> st, ran |-> ran, env |-> shenv, err |-> FALSE]

ShError == [pos |-> 0, st |-> 2, ran |-> <<>>, env |-> <<>>, err |-> TRUE]

RECURSIVE ShList(_, _, _, _, _)

\* a simple command, an assignment or a subshell `( list )`
ShCommand(toks, i, shenv, live, failing) ==
    CASE At(toks, i) = "cmd" ->
           ShResult(i + 1,
                    IF toks[i].a \in failing THEN 1 ELSE 0,
                    IF live THEN <<[cmd |-> toks[i].a, env |-> shenv]>> ELSE <<>>,
                    shenv)
      [] At(toks, i) = "assign" ->
           ShResult(i + 1, 0, <<>>,
                    IF live THEN SetProperty(shenv, toks[i].a, toks[i].v) ELSE shenv)
      [] At(toks, i) = "(" ->
           LET inner == ShList(toks, i + 1, shenv, live, failing) IN
           IF inner.err \/ At(toks, inner.pos) # ")" THEN ShError
           ELSE ShResult(inner.pos + 1, inner.st, inner.ran, shenv)
      [] OTHER -> ShError

\* `! command` or `command`
ShPipeline(toks, i, shenv, live, failing) ==
    IF At(toks, i) = "!"
    THEN LET c == ShCommand(toks, i + 1, shenv, live, failing) IN
         IF c.err THEN c ELSE [c EXCEPT !.st = IF c.st = 0 THEN 1 ELSE 0]
    ELSE ShCommand(toks, i, shenv, live, failing)

RECURSIVE ShAndOrRest(_, _, _, _)
\* the rest of `left && ...` or `left || ...`, left to right
ShAndOrRest(toks, left, live, failing) ==
    IF left.err \/ At(toks, left.pos) \notin {"&&", "||"} THEN left
    ELSE LET runs  == live /\ (IF At(toks, left.pos) = "&&"
                               THEN left.st = 0 ELSE left.st # 0)
             right == ShPipeline(toks, left.pos + 1, left.env, runs, failing)
         IN  IF right.err THEN right
             ELSE ShAndOrRest(toks,
                      ShResult(right.pos, IF runs THEN right.st ELSE left.st,
                               left.ran \o right.ran, right.env),
                      live, failing)

\* and-or lists separated by `;`
ShList(toks, i, shenv, live, failing) ==
    LET first == ShAndOrRest(toks, ShPipeline(toks, i, shenv, live, failing),
                             live, failing)
    IN  IF first.err \/ At(toks, first.pos) # ";" THEN first
        ELSE IF At(toks, first.pos + 1) \in {")", "eof"}
        THEN [first EXCEPT !.pos = first.pos + 1]
        ELSE LET rest == ShList(toks, first.pos + 1, first.env, live, failing) IN
             IF rest.err THEN rest ELSE [rest EXCEPT !.ran = first.ran \o rest.ran]

\* sh -c <the command>
Sh(pieces, failing) ==
    LET toks == LexFrom(pieces, 1)
        r    == ShList(toks, 1, <<>>, TRUE, failing)
    IN  IF r.err \/ r.pos <= Len(toks)
        THEN [st |-> 2, ran |-> <<>>]
        ELSE [st |-> r.st, ran |-> r.ran]

-----------------------------------------------------------------------------
(* The operations of Task *)

\* the call record kept in `last`
Call(op, t, cmd, value) == [op |-> op, task |-> t, cmd |-> cmd, value |-> value]

\* no render is in progress
Idle == [pc |-> "idle", top |-> Undefined, stack |-> <<>>, str |-> <<>>, msg |-> ""]

\* the steps all tasks hold together
TotalSteps == Len(_steps["a"]) + Len(_steps["b"])

\* a mutant: unshift appends
UnshiftedLast(list, step) == Append(list, step)

\* this._steps.unshift(step)
Unshifted(list, step) == <<step>> \o list

\* this._steps.push(step)
Pushed(list, step) == Append(list, step)

\* a mutant: the loop leaves the first step
ShiftedButOne(list) == IF list = <<>> THEN <<>> ELSE <<Head(list)>>

\* while (this._steps.length) { this._steps.shift(); }
ShiftedOut(list) == <<>>

\* this._env = props.env ?? {}: the object the task's _env refers to
EnvObject(t, props) == IF props.env # Undefined THEN props.env ELSE t

\* the constructor's `if (props.exec) { this.exec(props.exec); }`
SeededSteps(props) ==
    IF Truthy(props.exec) THEN Pushed(<<>>, ExecStep(props.exec, NoOptions)) ELSE <<>>

\* Task.exec(command, options)
exec(t, command, options) ==
    /\ _steps' = [_steps EXCEPT ![t] = Pushed(@, ExecStep(command, options))]
    /\ last' = Call("exec", t, Undefined, Undefined)
    /\ UNCHANGED <<_env, heap, condition, tasksEnv, rs>>

\* Task.prepend(shell, options)
prepend(t, shell, options) ==
    /\ _steps' = [_steps EXCEPT ![t] = Unshifted(@, ExecStep(shell, options))]
    /\ last' = Call("prepend", t, shell, Undefined)
    /\ UNCHANGED <<_env, heap, condition, tasksEnv, rs>>

\* Task.execTask(subtask, options)
execTask(t, subtask, options) ==
    /\ _steps' = [_steps EXCEPT ![t] = Pushed(@, SubtaskStep(subtask, options))]
    /\ last' = Call("execTask", t, Undefined, Undefined)
    /\ UNCHANGED <<_env, heap, condition, tasksEnv, rs>>

\* Task.reset(command?)
reset(t, command) ==
    /\ _steps' = [_steps EXCEPT ![t] =
                    IF Truthy(command)
                    THEN Pushed(ShiftedOut(@), ExecStep(command, NoOptions))
                    ELSE ShiftedOut(@)]
    /\ last' = Call("reset", t, command, Undefined)
    /\ UNCHANGED <<_env, heap, condition, tasksEnv, rs>>

\* Task.env(name, value)
env(t, name, value) ==
    /\ heap' = [heap EXCEPT ![_env[t]] = SetProperty(@, name, value)]
    /\ last' = Call("env", t, name, value)
    /\ UNCHANGED <<_steps, _env, condition, tasksEnv, rs>>

\* the array `commands` of Task.commit, joined with ' && '
CommitCommand(message, options) ==
    LET user  == IF Truthy(options.username)
                 THEN << <<"git config user.name \"" \o options.username \o "\"">> >>
                 ELSE <<>>
        email == IF Truthy(options.email)
                 THEN << <<"git config user.email \"" \o options.email \o "\"">> >>
                 ELSE <<>>
        add   == IF options.add = Undefined \/ options.add = "true" THEN "-a" ELSE ""
        git   == << <<"git commit " \o add \o " -m \"" \o message \o "\"">> >>
    IN  Flat(Join(user \o email \o git, " && "))

\* Task.commit(message, options): the options are the step's options too
commit(t, message, options) ==
    /\ _steps' = [_steps EXCEPT ![t] =
                    Pushed(@, ExecStep(CommitCommand(message, options), options))]
    /\ last' = Call("commit", t, Undefined, Undefined)
    /\ UNCHANGED <<_env, heap, condition, tasksEnv, rs>>

\* Task.push(branch, options): `task` is no name in scope, the call throws
push(t) ==
    /\ last' = Call("push", t, Undefined, Undefined)
    /\ UNCHANGED <<_steps, _env, heap, condition, tasksEnv, rs>>

\* Task.artifact(directory): a new TaskArtifact, nothing of the task changes
artifact(t) ==
    /\ last' = Call("artifact", t, Undefined, Undefined)
    /\ UNCHANGED <<_steps, _env, heap, condition, tasksEnv, rs>>

\* get steps(): [...this._steps], a new array with the same step objects
steps(t) == [alias |-> FALSE, value |-> _steps[t]]

\* Task._renderSpec(): `steps: this._steps` and `env: this._env` themselves
renderSpec(t) ==
    [steps |-> [alias |-> TRUE, value |-> _steps[t]], env |-> _env[t]]

\* a caller pushes a step onto an array a call returned to it
PushOnto(t, returned, step) ==
    _steps' = IF returned.alias
              THEN [_steps EXCEPT ![t] = Append(returned.value, step)]
              ELSE _steps

\* a caller reads task.steps and pushes a step onto the array it got
mutateSteps(t, step) ==
    /\ PushOnto(t, steps(t), step)
    /\ last' = Call("steps", t, Undefined, Undefined)
    /\ UNCHANGED <<_env, heap, condition, tasksEnv, rs>>

\* a caller pushes a step onto the steps of the record _renderSpec returned
mutateSpecSteps(t, step) ==
    /\ PushOnto(t, renderSpec(t).steps, step)
    /\ last' = Call("_renderSpec", t, Undefined, Undefined)
    /\ UNCHANGED <<_env, heap, condition, tasksEnv, rs>>

\* a caller sets an entry of the env object it passed to a constructor
mutateOptions(name, value) ==
    /\ heap' = [heap EXCEPT !["opts"] = SetProperty(@, name, value)]
    /\ last' = Call("options", Undefined, name, value)
    /\ UNCHANGED <<_steps, _env, condition, tasksEnv, rs>>

\* a caller renders a task: toShellCommand changes nothing
render(t) ==
    /\ last' = Call("toShellCommand", t, Undefined, Undefined)
    /\ UNCHANGED <<_steps, _env, heap, condition, tasksEnv, rs>>

-----------------------------------------------------------------------------
(* Construction: new Task(tasks, name, props) for each task of the registry *)

Constructed(propsOf, optsEnv, base) ==
    /\ _steps = [t \in Tasks |-> SeededSteps(propsOf[t])]
    /\ _env = [t \in Tasks |-> EnvObject(t, propsOf[t])]
    /\ condition = [t \in Tasks |-> propsOf[t].condition]
    /\ heap = [o \in Tasks \cup {"opts"} |-> IF o = "opts" THEN optsEnv ELSE <<>>]
    /\ tasksEnv = base
    /\ last = Call("new", Undefined, Undefined, Undefined)
    /\ rs = Idle

\* the options the tasks are constructed from where the steps are explored
StepProps ==
    [a : [exec : {Undefined, "", "x"}, condition : {Undefined, "c"}, env : {Undefined}],
     b : [exec : {Undefined}, condition : {"", "d"}, env : {"opts"}]]

Init ==
    \E propsOf \in StepProps :
        Constructed(propsOf, << <<"K", "t">> >>, << <<"J", "r">>, <<"K", "r">> >>)

\* what the step operations are called with
Commands == {"", "x", "y"}

ExecInputs ==
    {<<"", NoOptions>>, <<"x", NoOptions>>, <<"x", Named>>, <<"y", WithEnv>>}

PrependInputs == {<<"", NoOptions>>, <<"x", NoOptions>>, <<"x", Named>>}

SubtaskInputs ==
    {<<"a", NoOptions>>, <<"b", NoOptions>>, <<Unregistered, NoOptions>>}

CommitInputs ==
    {[username |-> "u", email |-> Undefined, add |-> "false",
      name |-> Undefined, env |-> <<>>]}

Next ==
    \E t \in Tasks :
        \/ /\ TotalSteps < MaxSteps
           /\ \E in \in ExecInputs : exec(t, in[1], in[2])
        \/ /\ TotalSteps < MaxSteps
           /\ \E in \in PrependInputs : prepend(t, in[1], in[2])
        \/ /\ TotalSteps < MaxSteps
           /\ \E in \in SubtaskInputs : execTask(t, in[1], in[2])
        \/ \E command \in Commands \cup {Undefined} : reset(t, command)
        \/ /\ TotalSteps < MaxSteps
           /\ \E options \in CommitInputs : commit(t, "m", options)

Spec == Init /\ [][Next]_vars

-----------------------------------------------------------------------------
(* The environment and the frame of a task: what is called where the       *)
(* environment objects are explored                                        *)

EnvProps ==
    [a : [exec : {Undefined, "x"}, condition : {Undefined}, env : {Undefined, "opts"}],
     b : [exec : {Undefined}, condition : {Undefined}, env : {Undefined, "opts"}]]

InitEnv ==
    \E propsOf \in EnvProps :
        \E optsEnv \in {<<>>, << <<"K", "o">> >>} :
            \E base \in {<<>>, << <<"J", "r">>, <<"K", "r">> >>} :
                Constructed(propsOf, optsEnv, base)

EnvInputs == {<<"K", "t">>, <<"K", "u">>, <<"L", "t">>}

NextEnv ==
    \/ \E in \in EnvInputs : mutateOptions(in[1], in[2])
    \/ \E t \in Tasks :
        \/ \E in \in EnvInputs : env(t, in[1], in[2])
        \/ /\ TotalSteps < MaxFrameSteps
           /\ exec(t, "y", NoOptions)
        \/ /\ TotalSteps < MaxFrameSteps
           /\ mutateSpecSteps(t, ExecStep("y", NoOptions))
        \/ mutateSteps(t, ExecStep("y", NoOptions))
        \/ render(t)
        \/ artifact(t)
        \/ push(t)

SpecEnv == InitEnv /\ [][NextEnv]_vars

-----------------------------------------------------------------------------
(* A render step by step: the calls of toShellCommand as a stack of frames, *)
(* each the task it renders, the step its loop is at and its `cmd` so far.  *)

\* frames the model follows; a render of tasks that do not reference
\* themselves nests at most one frame per task
MaxDepth == 3

\* steps a task holds where renders are followed step by step
MaxRenderSteps == 2

Frame(t) == [task |-> t, i |-> 1, cmd |-> <<>>]

Top == rs.stack[Len(rs.stack)]

Below == SubSeq(rs.stack, 1, Len(rs.stack) - 1)

\* a mutant: the loop takes the same step again after its subtask returned
SameStepAgain(frame, pushed) == frame

\* the loop pushes what the step gave and goes on to the next step
Advance(frame, pushed) ==
    [frame EXCEPT !.i = @ + 1, !.cmd = @ \o pushed]

\* a caller calls task.toShellCommand()
startRender(t) ==
    /\ rs.pc = "idle"
    /\ rs' = [rs EXCEPT !.pc = "running", !.top = t, !.stack = <<Frame(t)>>]
    /\ last' = Call("toShellCommand", t, Undefined, Undefined)
    /\ UNCHANGED <<_steps, _env, heap, condition, tasksEnv>>

\* one turn of the loop at a step that names no subtask
stepInline ==
    /\ rs.pc = "running"
    /\ Top.i <= Len(_steps[Top.task])
    /\ LET step == _steps[Top.task][Top.i] IN
       /\ ~Truthy(step.execTask)
       /\ rs' = [rs EXCEPT !.stack = Append(Below, Advance(Top, OwnFragments(step)))]
    /\ UNCHANGED <<_steps, _env, heap, condition, tasksEnv, last>>

\* one turn of the loop at a step that names a subtask: the error, or the
\* call of the subtask's toShellCommand
stepSubtask ==
    /\ rs.pc = "running"
    /\ Top.i <= Len(_steps[Top.task])
    /\ LET step    == _steps[Top.task][Top.i]
           subtask == tryFind(step.execTask)
       IN  /\ Truthy(step.execTask)
           /\ rs' = IF subtask = Undefined
                    THEN [rs EXCEPT !.pc = Throw(step.execTask).kind,
                                    !.stack = <<>>,
                                    !.msg = Throw(step.execTask).msg]
                    ELSE IF Len(rs.stack) >= MaxDepth
                    THEN [rs EXCEPT !.pc = "deep"]
                    ELSE [rs EXCEPT !.stack = Append(@, Frame(subtask))]
    /\ UNCHANGED <<_steps, _env, heap, condition, tasksEnv, last>>

\* the loop of the top frame is over: the frame returns its string
returnString ==
    /\ rs.pc = "running"
    /\ Top.i > Len(_steps[Top.task])
    /\ LET str == Assemble(Lines(RenderEnv(Top.task)),
                           WithCondition(condition[Top.task], AllCommands(Top.cmd)))
       IN  rs' = IF Len(rs.stack) = 1
                 THEN [rs EXCEPT !.pc = "returned", !.stack = <<>>, !.str = str]
                 ELSE LET caller == rs.stack[Len(rs.stack) - 1]
                          step   == _steps[caller.task][caller.i]
                      IN  [rs EXCEPT !.stack =
                              Append(SubSeq(rs.stack, 1, Len(rs.stack) - 2),
                                     Advance(caller,
                                         OwnFragments(step) \o <<SubtaskGroup(str)>>))]
    /\ UNCHANGED <<_steps, _env, heap, condition, tasksEnv, last>>

\* the step lists of at most n steps over a set of steps
StepLists(S, n) == UNION {[1..k -> S] : k \in 0..n}

RenderSteps ==
    {ExecStep("x", NoOptions), ExecStep("y", Named),
     SubtaskStep("a", NoOptions), SubtaskStep("b", NoOptions),
     SubtaskStep(Unregistered, NoOptions)}

InitRender ==
    /\ _steps \in [Tasks -> StepLists(RenderSteps, MaxRenderSteps)]
    /\ _env = [t \in Tasks |-> t]
    /\ heap = [o \in Tasks \cup {"opts"} |-> IF o = "b" THEN << <<"K", "t">> >> ELSE <<>>]
    /\ condition = [t \in Tasks |-> IF t = "a" THEN Undefined ELSE "d"]
    /\ tasksEnv = << <<"J", "r">> >>
    /\ last = Call("new", Undefined, Undefined, Undefined)
    /\ rs = Idle

NextRender ==
    \/ \E t \in Tasks : startRender(t)
    \/ stepInline
    \/ stepSubtask
    \/ returnString

\* a call that has begun runs on: the code is synchronous
SpecRender == InitRender /\ [][NextRender]_vars /\ WF_vars(NextRender)

-----------------------------------------------------------------------------
(* Properties *)

Range(f) == {f[i] : i \in 1..Len(f)}

\* the commands whose exit status the properties vary
FailCandidates == {"x", "y", "c", "d"}

\* the steps of t are all inline (Exec) steps
AllInline(t) == \A i \in 1..Len(_steps[t]) : _steps[t][i].execTask = Undefined

\* the steps of t are all inline, unnamed and of a non-empty command
AllPlain(t) ==
    \A i \in 1..Len(_steps[t]) :
        /\ _steps[t][i].execTask = Undefined
        /\ Truthy(_steps[t][i].exec)
        /\ ~Truthy(_steps[t][i].name)

\* the render of a task without a condition whose chain is one grouped
\* fragment per step, in the order of the step list
OneFragmentPerStep(t) ==
    LET r == toShellCommand(t) IN
    /\ r.kind = "ok"
    /\ Len(Cmd(t).cmd) = Len(_steps[t])
    /\ r.str = <<"( ">> \o Join(Lines(RenderEnv(t)), "") \o <<" ">>
               \o Join([i \in 1..Len(_steps[t]) |->
                           <<"( ", _steps[t][i].exec, " )">>], " && ")
               \o <<" )">>

\* C1 as stated: a task with no condition and N inline steps renders exactly
\* N grouped fragments joined by &&, one per step, in step order.
C1_AsStated ==
    \A t \in Tasks :
        (~Truthy(condition[t]) /\ AllInline(t)) => OneFragmentPerStep(t)

\* C1, amended: a task with no condition whose N inline steps are unnamed and
\* of non-empty commands renders exactly N grouped fragments joined by &&,
\* one per step, in step order.
C1_InlineStepsInOrder ==
    \A t \in Tasks :
        (~Truthy(condition[t]) /\ AllPlain(t)) => OneFragmentPerStep(t)

C1_Witness ==
    \E t \in Tasks :
        /\ ~Truthy(condition[t]) /\ AllPlain(t)
        /\ Len(_steps[t]) = 3
        /\ _steps[t][1].exec # _steps[t][2].exec

\* the fragments of t's render, once they exist
Fragments(t) == Cmd(t).cmd

C3_AsStated ==
    last.op = "reset" =>
        steps(last.task).value =
            IF last.cmd # Undefined THEN <<ExecStep(last.cmd, NoOptions)>> ELSE <<>>

\* C3, amended: after reset(cmd) with a non-empty command string cmd, steps
\* is exactly one Exec step of cmd; after reset() or reset("") it is empty.
C3_ResetReseeds ==
    last.op = "reset" =>
        steps(last.task).value =
            IF Truthy(last.cmd) THEN <<ExecStep(last.cmd, NoOptions)>> ELSE <<>>

C3_Witness ==
    /\ last.op = "reset" /\ last.cmd = "y"
    /\ Len(_steps[last.task]) = 1

RECURSIVE AssignsFrom(_, _)
\* the assignments a command starts with, from token i on
AssignsFrom(toks, i) ==
    IF At(toks, i) = "assign"
    THEN << <<toks[i].a, toks[i].v>> >> \o AssignsFrom(toks, i + 2)
    ELSE <<>>

\* the assignments the render of t emits ahead of its steps
Emitted(t) == AssignsFrom(LexFrom(toShellCommand(t).str, 1), 2)

\* C4: the render emits exactly one assignment per variable of the union of
\* the registry's and the task's environment: the registry's value where the
\* task does not set the name, the task's latest value where it does.
C4_TaskEnvWins ==
    \A t \in Tasks :
        LET names == Keys(tasksEnv) \cup Keys(EnvOf(t)) IN
        /\ toShellCommand(t).kind = "ok"
        /\ Len(Emitted(t)) = Cardinality(names)
        /\ \A k \in Keys(EnvOf(t)) : <<k, ValueOf(EnvOf(t), k)>> \in Range(Emitted(t))
        /\ \A k \in Keys(tasksEnv) \ Keys(EnvOf(t)) :
               <<k, ValueOf(tasksEnv, k)>> \in Range(Emitted(t))
        /\ (last.op = "env" /\ last.task = t) =>
               <<last.cmd, last.value>> \in Range(Emitted(t))

C4_Witness ==
    /\ last.op = "env" /\ last.cmd = "K" /\ last.value = "u"
    /\ <<"K", "r">> \in Range(tasksEnv)
    /\ <<"J", "r">> \in Range(Emitted(last.task))
    /\ <<"L", "t">> \in Range(Emitted(last.task))

\* the run of t's render with its condition gate left out
Ungated(t, failing) ==
    Sh(Assemble(Lines(RenderEnv(t)), AllCommands(Fragments(t))), failing)

\* the condition of t, run once in the shell of the render
ConditionRun(t) == <<[cmd |-> condition[t], env |-> RenderEnv(t)]>>

\* the gate of a render that has a condition
Gate(t, failing) ==
    LET gated == Sh(toShellCommand(t).str, failing) IN
    IF condition[t] \in failing
    THEN gated.st = 0 /\ gated.ran = ConditionRun(t)
    ELSE /\ gated.st = Ungated(t, failing).st
         /\ gated.ran = ConditionRun(t) \o Ungated(t, failing).ran

\* C5: the render of a task with a condition runs the condition once, before
\* any step; when it exits non-zero no step runs and the command exits 0,
\* when it exits zero the steps run as without a condition.
C5_ConditionGate ==
    \A t \in Tasks :
        (Truthy(condition[t]) /\ toShellCommand(t).kind = "ok") =>
            \A failing \in SUBSET FailCandidates : Gate(t, failing)

\* the gate where the render is a command the shell parses
C5_GateWhereParsed ==
    \A t \in Tasks :
        (Truthy(condition[t]) /\ toShellCommand(t).kind = "ok") =>
            \A failing \in SUBSET FailCandidates :
                Sh(toShellCommand(t).str, failing).st # 2 => Gate(t, failing)

\* the registered tasks the steps of u name
Refs(u) == {_steps[u][i].execTask : i \in 1..Len(_steps[u])} \cap Tasks

RECURSIVE Closure(_)
\* the tasks reached from the tasks of S through any number of references
Closure(S) ==
    LET more == S \cup UNION {Refs(u) : u \in S} IN
    IF more = S THEN S ELSE Closure(more)

\* t and the tasks a render of t may reach
Reach(t) == Closure({t})

\* some task a render of t may reach references itself, directly or not
Cyclic(t) == \E u \in Reach(t) : u \in Closure(Refs(u))

\* the names a step list gives as subtasks that tryFind does not resolve
MissingIn(u) ==
    {_steps[u][i].execTask :
        i \in {j \in 1..Len(_steps[u]) :
                 /\ Truthy(_steps[u][j].execTask)
                 /\ tryFind(_steps[u][j].execTask) = Undefined}}

\* the unresolved names in the step lists a render of t may reach
Missing(t) == UNION {MissingIn(u) : u \in Reach(t)}

\* a render that raises the unresolved-subtask error and returns no string
RaisesMissing(t) ==
    LET r == toShellCommand(t) IN
    /\ r.kind = "throw"
    /\ r.str = <<>>
    /\ \E name \in Missing(t) : r.msg = "unable to resolve subtask " \o name

\* C6 as stated: a render whose step lists, its own or a reached subtask's,
\* hold an unresolved execTask name raises an error naming the missing task
\* and returns no string.
C6_AsStated == \A t \in Tasks : Missing(t) # {} => RaisesMissing(t)

\* C6, amended: the same, provided no task the render may reach references
\* itself, directly or transitively.
C6_UnresolvedRaises ==
    \A t \in Tasks : (Missing(t) # {} /\ ~Cyclic(t)) => RaisesMissing(t)

C6_Witness ==
    /\ Truthy(condition["a"])
    /\ Len(_steps["a"]) = 2 /\ _steps["a"][2].execTask = "b"
    /\ MissingIn("a") = {} /\ MissingIn("b") = {Unregistered}
    /\ toShellCommand("a").kind = "throw"

\* the fragments a step contributes to the chain
FragmentCount(step) ==
    (IF Truthy(step.name) THEN 1 ELSE 0)
    + (IF Truthy(step.exec) THEN 1 ELSE 0)
    + (IF Truthy(step.execTask) THEN 1 ELSE 0)

RECURSIVE FragmentsBefore(_, _)
\* the fragments the first i steps of t contribute
FragmentsBefore(t, i) ==
    IF i = 0 THEN 0 ELSE FragmentsBefore(t, i - 1) + FragmentCount(_steps[t][i])

\* C7: where a step of A names a task B the registry resolves, A's render
\* holds, as one grouped fragment of its &&-chain at the place of that step,
\* the string B.toShellCommand() returns in the same state.
C7_SubtaskNested ==
    \A A \in Tasks :
        toShellCommand(A).kind = "ok" =>
            /\ toShellCommand(A).str =
                 <<"( ">> \o Join(Lines(RenderEnv(A)), "") \o <<" ">>
                 \o WithCondition(condition[A],
                        Join([k \in 1..Len(Fragments(A)) |->
                                <<"( ">> \o Fragments(A)[k] \o <<" )">>], " && "))
                 \o <<" )">>
            /\ \A i \in 1..Len(_steps[A]) :
                 tryFind(_steps[A][i].execTask) # Undefined =>
                     LET B == tryFind(_steps[A][i].execTask) IN
                     /\ toShellCommand(B).kind = "ok"
                     /\ Len(Fragments(A)) >= FragmentsBefore(A, i)
                     /\ Fragments(A)[FragmentsBefore(A, i)] =
                          <<"( ">> \o toShellCommand(B).str \o <<" )">>

C7_Witness ==
    /\ last.op = "exec" /\ last.task = "b"
    /\ Len(_steps["a"]) = 2 /\ _steps["a"][1].execTask = "b"
    /\ Len(_steps["b"]) = 1
    /\ Truthy(condition["b"])
    /\ toShellCommand("a").kind = "ok"

\* C8: a step's environment override gives that step's fragment, and no
\* other, the step-level value of each variable it names, over the task's
\* and the registry's value.
C8_StepEnvScoped ==
    \A t \in Tasks :
        (AllPlain(t) /\ \E i \in 1..Len(_steps[t]) : _steps[t][i].env # <<>>) =>
            LET ran    == Sh(toShellCommand(t).str, {}).ran
                offset == IF Truthy(condition[t]) THEN 1 ELSE 0
            IN  /\ Len(ran) = offset + Len(_steps[t])
                /\ \A i \in 1..Len(_steps[t]) :
                     /\ ran[offset + i].cmd = _steps[t][i].exec
                     /\ ran[offset + i].env
                          = SpreadFrom(RenderEnv(t), _steps[t][i].env, 1)

\* the operations of a task that change it
OwnOperations == {"exec", "prepend", "execTask", "reset", "env", "commit"}

\* what a caller does that is not an operation of task t
NotAnOperationOn(t, call) ==
    \/ call.op \in {"steps", "options", "toShellCommand", "artifact"}
    \/ call.op \in OwnOperations /\ call.task # t

\* C9: the step list, the environment and the render of a task change only
\* through the task's own operations: not through the array steps returned,
\* the options object its constructor was given, an operation on another
\* task, toShellCommand or artifact.
C9_OwnOperationsOnly ==
    [][\A t \in Tasks :
        NotAnOperationOn(t, last') =>
            /\ _steps'[t] = _steps[t]
            /\ EnvOf(t)' = EnvOf(t)
            /\ toShellCommand(t)' = toShellCommand(t)
      ]_vars

\* the step list alone changes only through the task's own operations
C9_StepsFrame ==
    [][\A t \in Tasks : NotAnOperationOn(t, last') => _steps'[t] = _steps[t]]_vars

\* the step-by-step render ends as toShellCommand says
RenderAgrees ==
    /\ rs.pc = "returned" =>
         toShellCommand(rs.top) = [kind |-> "ok", str |-> rs.str, msg |-> ""]
    /\ rs.pc = "throw" =>
         toShellCommand(rs.top) = [kind |-> "throw", str |-> <<>>, msg |-> rs.msg]
    /\ rs.pc = "deep" => toShellCommand(rs.top).kind = "diverge"
    /\ rs.pc = "running" => Len(rs.stack) <= MaxDepth

\* C10: a render of a task whose references, resolved through the registry,
\* hold no cycle ends, with a string or with the unresolved-subtask error;
\* only a render that reaches a task referencing itself nests without end.
C10_RenderTerminates ==
    /\ [](rs.pc = "deep" => Cyclic(rs.top))
    /\ (rs.pc = "running" /\ ~Cyclic(rs.top)) ~> (rs.pc \in {"returned", "throw"})

C10_Witness ==
    /\ rs.pc = "returned" /\ rs.top = "a"
    /\ ~Cyclic("a")
    /\ Len(_steps["a"]) = 2 /\ _steps["a"][1].execTask = "b"
    /\ Len(_steps["b"]) = 2

=============================================================================
